---- MODULE Spec2Model ----
(***************************************************************************)
(* A model of htsprophet/hts.py: the summing-matrix constructor            *)
(* (SummingMat), the reconciliation orchestrator (hts, with its cvSelect   *)
(* cross-validation) and the hierarchy builder (orderHier).                *)
(*                                                                         *)
(* numpy arrays are records [ndim, v]: ndim = 1 with v a sequence of       *)
(* numbers, ndim = 2 with v a sequence of rows.  A raised IndexError is    *)
(* the value IndexError (ndim = 0).                                        *)
(***************************************************************************)
EXTENDS Integers, Sequences, FiniteSets, TLC

VARIABLES
    smNodes,    \* SummingMat: the topology handed to it
    smPc,       \* SummingMat: "call" | "returned" | "raised"
    smResult    \* SummingMat: the array returned (or IndexError)

smVars == <<smNodes, smPc, smResult>>

VARIABLES
    \* hts: its arguments
    y,                \* the wide table: a sequence of rows <<time, total, ...>>
    h, nodes, method, include_history, cap, capF,
    \* hts: its locals
    sumMat,           \* SummingMat(nodes)
    splits,           \* the (trainIndex, testIndex) pairs of tscv.split
    fold,             \* the position of the fold loop in splits
    ynewFold,         \* ynew1 .. ynew5 of the current fold, as far as fitted
    MASE,             \* <<MASE1, MASE2, MASE3, MASE4, MASE5>>
    choice,           \* the selected method ("" before the selection)
    ynew,             \* the forecasts of the last call of the run
    \* hts: what the run shows outside
    pc,               \* the position of the run
    calls,            \* the trace of fitForecast calls
    failed,           \* whether a fitForecast call has raised
    printed,          \* what print(choice) wrote
    returned,         \* whether hts returned ynew
    error,            \* the exit message or exception that ended the run
    \* the backend
    bias              \* the forecast bias of each method fitted so far

htsArgs == <<y, h, nodes, method, include_history, cap, capF>>
htsLocals == <<sumMat, splits, fold, ynewFold, MASE, choice, ynew>>
htsOut == <<pc, calls, failed, printed, returned, error>>
htsVars == <<htsArgs, htsLocals, htsOut, bias>>

VARIABLES
    maTable,    \* MASE: the wide table (time and one node column)
    maTest,     \* MASE: testIndex
    maYhat,     \* MASE: the yhat column of the node's forecast table
    maPc,       \* MASE: "call" | "done"
    maValue     \* MASE: the value computed

maVars == <<maTable, maTest, maYhat, maPc, maValue>>

VARIABLES
    data,       \* orderHier: the raw rows <<time, tag, ..., tag, value>>
    col1, col2, col3, col4, rmZeros,
    ohPc,       \* orderHier: the position of the run
    ohY,        \* orderHier: y, [cols |-> names, rows |-> rows of cells]
    ohNodes,    \* orderHier: nodes
    ohError     \* orderHier: the exit message or exception

ohArgs == <<data, col1, col2, col3, col4, rmZeros>>
ohVars == <<ohArgs, ohPc, ohY, ohNodes, ohError>>

vars == <<smVars, htsVars, maVars, ohVars>>

\* What an action of one component leaves alone.
notHts == <<smVars, maVars, ohVars>>
notSM == <<htsVars, maVars, ohVars>>
notMA == <<smVars, htsVars, ohVars>>
notOH == <<smVars, htsVars, maVars>>

\* The state of a component that does not run.
SMRest == smNodes = <<>> /\ smPc = "rest" /\ smResult = <<>>

OHRest ==
    /\ data = <<>> /\ col1 = 0 /\ col2 = 0 /\ col3 = 0 /\ col4 = 0
    /\ rmZeros = FALSE
    /\ ohPc = "rest" /\ ohY = <<>> /\ ohNodes = <<>> /\ ohError = ""

MARest ==
    maTable = <<>> /\ maTest = <<>> /\ maYhat = <<>> /\ maPc = "rest" /\ maValue = <<>>

HtsRest ==
    /\ y = <<>> /\ h = 0 /\ nodes = <<>> /\ method = "" /\ include_history = TRUE
    /\ cap = <<>> /\ capF = <<>>
    /\ sumMat = <<>> /\ splits = <<>> /\ fold = 0 /\ ynewFold = <<>> /\ MASE = <<>>
    /\ choice = "" /\ ynew = <<>>
    /\ pc = "rest" /\ calls = <<>> /\ failed = FALSE /\ printed = ""
    /\ returned = FALSE /\ error = "" /\ bias = <<>>


\* Bounds of the topologies the summing-matrix specification enumerates.
MaxLeaves == 4
MaxLevels == 3

-----------------------------------------------------------------------------
(* Generic helpers: Python's sum, min, range.                              *)

RECURSIVE SumSeq(_)
SumSeq(s) == IF s = <<>> THEN 0 ELSE s[1] + SumSeq(Tail(s))

Min2(a, b) == IF a <= b THEN a ELSE b

-----------------------------------------------------------------------------
(* numpy, as far as SummingMat uses it.                                    *)

IndexError == [ndim |-> 0, v |-> <<>>]

Arr1(s) == [ndim |-> 1, v |-> s]
Arr2(rows) == [ndim |-> 2, v |-> rows]

\* np.ones(n), np.zeros([n]), np.identity(n)
Ones(n) == Arr1([j \in 1..n |-> 1])
Zeros(n) == Arr1([j \in 1..n |-> 0])
Identity(n) == Arr2([i \in 1..n |-> [j \in 1..n |-> IF i = j THEN 1 ELSE 0]])

\* np.all(B == 0)
AllZero(B) ==
    IF B.ndim = 1
    THEN \A j \in 1..Len(B.v) : B.v[j] = 0
    ELSE \A i \in 1..Len(B.v) : \A j \in 1..Len(B.v[i]) : B.v[i][j] = 0

\* The rows of a 1-D array promoted by np.vstack (np.atleast_2d).
AtLeast2d(A) == IF A.ndim = 1 THEN <<A.v>> ELSE A.v

\* np.vstack((A, B))
VStack(A, B) == Arr2(AtLeast2d(A) \o AtLeast2d(B))

\* blMat[lo:hi, :].sum(axis = 0) for a 2-D blMat with ncol columns; the
\* slice lo:hi is rows lo+1 .. hi (1-based), clipped to the array.
SliceSum(M, lo, hi, ncol) ==
    LET top == Min2(hi, Len(M.v))
        rows == IF lo + 1 > top THEN {} ELSE (lo + 1)..top
        RECURSIVE colSum(_, _)
        colSum(j, S) == IF S = {} THEN 0
                        ELSE LET r == CHOOSE x \in S : TRUE
                             IN M.v[r][j] + colSum(j, S \ {r})
    IN Arr1([j \in 1..ncol |-> colSum(j, rows)])

-----------------------------------------------------------------------------
(* SummingMat (hts.py 92-126).                                             *)

\* numAtLev = list(map(sum, nodes))
NumAtLev(nd) == [i \in 1..Len(nd) |-> SumSeq(nd[i])]

\* The inner loop "for num2sum in summing" (lines 112-119), from position k
\* of summing with the loop's locals count, num2sumInd and B.  Indexing a
\* 1-D blMat with two indices (line 114) raises IndexError.
RECURSIVE InnerLoop(_, _, _, _, _, _, _)
InnerLoop(blMat, summing, k, count, num2sumInd, B, ncol) ==
    IF k > Len(summing) THEN B
    ELSE IF blMat.ndim # 2 THEN IndexError
    ELSE LET ind == num2sumInd + summing[k]
             a == SliceSum(blMat, count, ind, ncol)
             B2 == IF AllZero(B) THEN a ELSE VStack(B, a)
         IN InnerLoop(blMat, summing, k + 1, count + summing[k], ind, B2, ncol)

\* The outer loop "for lev in range(numLevs-1)" (lines 106-121), from lev
\* with the locals finalMat and blMat; returns finalMat or IndexError.
RECURSIVE OuterLoop(_, _, _, _, _)
OuterLoop(nd, lev, finalMat, blMat, ncol) ==
    IF lev >= Len(nd) - 1 THEN finalMat
    ELSE LET summing == nd[Len(nd) - lev]
             B == InnerLoop(blMat, summing, 1, 0, 0, Zeros(ncol), ncol)
         IN IF B = IndexError THEN IndexError
            ELSE OuterLoop(nd, lev + 1, VStack(B, finalMat), B, ncol)

SummingMat(nd) ==
    LET numAtLev == NumAtLev(nd)
        ncol == numAtLev[Len(numAtLev)]
        top == Ones(ncol)
        blMat == Identity(ncol)
        finalMat == OuterLoop(nd, 0, blMat, blMat, ncol)
    IN IF finalMat = IndexError THEN IndexError ELSE VStack(top, finalMat)

-----------------------------------------------------------------------------
(* The topologies the summing-matrix contract covers: at least one level,  *)
(* positive child counts, the sum of level i = the length of level i+1.    *)

\* The sequences of k positive integers that sum to m.
Comps(m, k) == {s \in [1..k -> 1..m] : SumSeq(s) = m}

\* One more level below the topologies of T.
Extend(T) ==
    {Append(t, c) : t \in T, c \in UNION {[1..k -> 1..MaxLeaves] : k \in 1..MaxLeaves}}

RECURSIVE ToposOfDepth(_)
ToposOfDepth(d) ==
    IF d = 1 THEN {<<<<n>>>> : n \in 1..MaxLeaves}
    ELSE {t \in Extend(ToposOfDepth(d - 1)) :
             /\ Len(t[d]) = SumSeq(t[d - 1])
             /\ SumSeq(t[d]) <= MaxLeaves}

Topologies == UNION {ToposOfDepth(d) : d \in 1..MaxLevels}

-----------------------------------------------------------------------------
(* The summing-matrix specification: one call of SummingMat on a topology. *)

SMInit ==
    /\ smNodes \in Topologies
    /\ smPc = "call"
    /\ smResult = IndexError
    /\ HtsRest
    /\ MARest
    /\ OHRest

SMCall ==
    /\ smPc = "call"
    /\ smResult' = SummingMat(smNodes)
    /\ smPc' = IF smResult' = IndexError THEN "raised" ELSE "returned"
    /\ UNCHANGED <<notSM, smNodes>>

SMNext == SMCall

-----------------------------------------------------------------------------
(* Floating-point values as hts computes them: a finite value is an exact  *)
(* fraction p/q in lowest terms; x/0 is inf and 0/0 is nan, as numpy       *)
(* scalars divide (a warning, no exception).                               *)

RECURSIVE Gcd(_, _)
Gcd(a, b) == IF b = 0 THEN a ELSE Gcd(b, a % b)

Abs(x) == IF x < 0 THEN -x ELSE x

NaN == [t |-> "nan", p |-> 0, q |-> 1]
Inf == [t |-> "inf", p |-> 0, q |-> 1]
Fin(p, q) == LET g == Gcd(p, q) IN [t |-> "fin", p |-> p \div g, q |-> q \div g]

\* a / b for a >= 0, b >= 0 (numpy float division)
FDiv(a, b) == IF b = 0 THEN (IF a = 0 THEN NaN ELSE Inf) ELSE Fin(a, b)

\* x + y
FAdd(x, z) ==
    IF x.t = "nan" \/ z.t = "nan" THEN NaN
    ELSE IF x.t = "inf" \/ z.t = "inf" THEN Inf
    ELSE Fin(x.p * z.q + z.p * x.q, x.q * z.q)

\* x < y and x == y: every comparison with nan is False
FLt(x, z) ==
    /\ x.t # "nan" /\ z.t # "nan"
    /\ x.t = "fin"
    /\ z.t = "inf" \/ x.p * z.q < z.p * x.q

FEq(x, z) == x.t # "nan" /\ z.t # "nan" /\ x = z

FLe(x, z) == FLt(x, z) \/ FEq(x, z)

RECURSIVE FSum(_)
FSum(s) == IF s = <<>> THEN Fin(0, 1) ELSE FAdd(s[1], FSum(Tail(s)))

\* np.mean(s): nan for an empty list
Mean(s) ==
    IF s = <<>> THEN NaN
    ELSE LET t == FSum(s) IN IF t.t = "fin" THEN Fin(t.p, t.q * Len(s)) ELSE t

\* The position of min(s) as Python's min finds it: the first element is
\* kept until a later one compares strictly less.
RECURSIVE MinPos(_, _, _)
MinPos(s, k, best) ==
    IF k > Len(s) THEN best
    ELSE MinPos(s, k + 1, IF FLt(s[k], s[best]) THEN k ELSE best)

\* A variant of IndexOfMin: the last position of the minimum.
IndexOfMinLast(s) ==
    LET m == MinPos(s, 2, 1)
    IN CHOOSE i \in 1..Len(s) :
           /\ i = m \/ FEq(s[i], s[m])
           /\ \A j \in (i + 1)..Len(s) : ~(j = m \/ FEq(s[j], s[m]))

\* s.index(min(s)): the first position holding the object min returned, or
\* a value equal to it.
IndexOfMin(s) ==
    LET m == MinPos(s, 2, 1)
    IN CHOOSE i \in 1..Len(s) :
           /\ i = m \/ FEq(s[i], s[m])
           /\ \A j \in 1..(i - 1) : ~(j = m \/ FEq(s[j], s[m]))

-----------------------------------------------------------------------------
(* hts: validation (hts.py 130-147).                                       *)

AllowedMethods == {"OC", "FP", "PHA", "AHP", "BU", "cvSelect"}

\* cap and capF: None, a constant, a DataFrame of cols columns, or a value
\* of another type
None == [kind |-> "None", cols |-> 0]
Constant == [kind |-> "const", cols |-> 0]
OtherType == [kind |-> "str", cols |-> 0]
DataFrame(n) == [kind |-> "DataFrame", cols |-> n]

\* sum(list(map(sum, nodes)))
SumNodes(nd) == SumSeq([i \in 1..Len(nd) |-> SumSeq(nd[i])])

\* len(y.columns)
NumColumns(tbl) == Len(tbl[1])

\* A variant of ErrorHandling: the horizon check lets h = 0 through.
ErrorHandlingHorizonOffByOne(h_, method_, nodes_, ncols, cap_, capF_) ==
    IF h_ < 0 THEN "h"
    ELSE IF method_ \notin AllowedMethods THEN "method"
    ELSE IF Len(nodes_) < 1 THEN "nodes length"
    ELSE IF SumNodes(nodes_) # ncols - 2 THEN "nodes sum"
    ELSE IF cap_.kind \notin {"const", "DataFrame", "None"} THEN "cap type"
    ELSE IF capF_.kind \notin {"const", "DataFrame", "None"} THEN "capF type"
    ELSE IF cap_.kind = "DataFrame" /\ cap_.cols # ncols - 1 THEN "cap columns"
    ELSE IF capF_.kind = "DataFrame" /\ capF_.cols # ncols - 1 THEN "capF columns"
    ELSE ""

\* The sys.exit message the error handling ends with, "" when it passes.
ErrorHandling(h_, method_, nodes_, ncols, cap_, capF_) ==
    IF h_ < 1 THEN "h"
    ELSE IF method_ \notin AllowedMethods THEN "method"
    ELSE IF Len(nodes_) < 1 THEN "nodes length"
    ELSE IF SumNodes(nodes_) # ncols - 2 THEN "nodes sum"
    ELSE IF cap_.kind \notin {"const", "DataFrame", "None"} THEN "cap type"
    ELSE IF capF_.kind \notin {"const", "DataFrame", "None"} THEN "capF type"
    ELSE IF cap_.kind = "DataFrame" /\ cap_.cols # ncols - 1 THEN "cap columns"
    ELSE IF capF_.kind = "DataFrame" /\ capF_.cols # ncols - 1 THEN "capF columns"
    ELSE ""

-----------------------------------------------------------------------------
(* hts: the cross-validation split (hts.py 157, 166).                      *)

n_splits == 3

Range(a, b) == [i \in 1..(IF b >= a THEN b - a + 1 ELSE 0) |-> a + i - 1]

\* A variant of TimeSeriesSplit: the rows are divided by the number of
\* folds, not by the number of folds plus one.
TimeSeriesSplitByFolds(n) ==
    LET test_size == n \div n_splits
        start(k) == n - (n_splits - k + 1) * test_size
    IN [k \in 1..n_splits |->
           [train |-> Range(1, start(k)),
            test |-> Range(start(k) + 1, start(k) + test_size)]]

\* TimeSeriesSplit(n_splits).split of n rows: fold k (1 .. n_splits) tests
\* the block of n \div (n_splits + 1) rows that starts after row
\* n - (n_splits - k + 1) * test_size and trains on every row before it.
\* Row positions are 1-based.  The caller checks n >= n_splits + 1.
TimeSeriesSplit(n) ==
    LET test_size == n \div (n_splits + 1)
        start(k) == n - (n_splits - k + 1) * test_size
    IN [k \in 1..n_splits |->
           [train |-> Range(1, start(k)),
            test |-> Range(start(k) + 1, start(k) + test_size)]]

-----------------------------------------------------------------------------
(* The forecasting backend, htsprophet.fitForecast: one forecast table per *)
(* node, keyed 0 .. (number of nodes - 1); yhat holds the fitted history   *)
(* (when include_history) followed by horizon forecasts.  The forecasts    *)
(* extrapolate the last step of the training rows, plus the bias b.        *)

Keys(tbl) == 0..(NumColumns(tbl) - 2)

Yhat(tbl, rows, horizon, key, b, hist) ==
    LET n == Len(rows)
        last == tbl[rows[n]][key + 2]
        step == IF n >= 2 THEN last - tbl[rows[n - 1]][key + 2] ELSE 0
        future == [j \in 1..horizon |-> last + j * step + b]
    IN (IF hist THEN [i \in 1..n |-> tbl[rows[i]][key + 2]] ELSE <<>>) \o future

fitForecast(tbl, rows, horizon, b, hist) ==
    [key \in Keys(tbl) |-> Yhat(tbl, rows, horizon, key, b, hist)]

-----------------------------------------------------------------------------
(* hts: the accuracy measure (hts.py 183-187).                             *)

\* s[-n:]
LastN(s, n) == SubSeq(s, Len(s) - n + 1, Len(s))

\* y.iloc[testIndex, key + 1].values
Actuals(tbl, testIndex, key) == [i \in 1..Len(testIndex) |-> tbl[testIndex[i]][key + 2]]

\* sum(abs(a - b))
RECURSIVE SumAbsDiff(_, _)
SumAbsDiff(a, b) ==
    IF a = <<>> THEN 0 ELSE Abs(a[1] - b[1]) + SumAbsDiff(Tail(a), Tail(b))

\* The value appended for one key and one method.  The numerator is
\* evaluated first; len(testIndex)/(len(testIndex)-1) then divides two
\* Python ints and raises ZeroDivisionError for a window of one row;
\* (n / (n - 1)) * d is n * d / (n - 1), and the last division is numpy's.
ZeroDivisionError == [t |-> "ZeroDivisionError", p |-> 0, q |-> 1]

\* A variant of MASEValue: the first n rows of yhat instead of the last n.
MASEValueFirstRows(yhat, tbl, testIndex, key) ==
    LET n == Len(testIndex)
        act == Actuals(tbl, testIndex, key)
        errs == SumAbsDiff(SubSeq(yhat, 1, n), act)
        diffs == SumAbsDiff(Tail(act), SubSeq(act, 1, n - 1))
    IN IF n - 1 = 0 THEN ZeroDivisionError
       ELSE FDiv(errs * (n - 1), n * diffs)

MASEValue(yhat, tbl, testIndex, key) ==
    LET n == Len(testIndex)
        act == Actuals(tbl, testIndex, key)
        errs == SumAbsDiff(LastN(yhat, n), act)
        diffs == SumAbsDiff(Tail(act), SubSeq(act, 1, n - 1))
    IN IF n - 1 = 0 THEN ZeroDivisionError
       ELSE FDiv(errs * (n - 1), n * diffs)

\* A variant of MASEAppend: the total (key 0) is not scored.
RECURSIVE MASEAppendSkipTotal(_, _, _, _, _, _)
MASEAppendSkipTotal(list, fc, keys, k, tbl, testIndex) ==
    IF k \notin keys THEN list
    ELSE MASEAppendSkipTotal(
             IF k = 0 THEN list
             ELSE Append(list, MASEValue(fc[k], tbl, testIndex, k)),
             fc, keys, k + 1, tbl, testIndex)

\* "for key in ynew1.keys()": the values appended to MASE_m from key k on.
RECURSIVE MASEAppend(_, _, _, _, _, _)
MASEAppend(list, fc, keys, k, tbl, testIndex) ==
    IF k \notin keys THEN list
    ELSE MASEAppend(Append(list, MASEValue(fc[k], tbl, testIndex, k)),
                    fc, keys, k + 1, tbl, testIndex)

-----------------------------------------------------------------------------
(* hts: the inputs the orchestrator specification enumerates.              *)

\* The shortest table has one row less than the n_splits + 1 rows that
\* TimeSeriesSplit needs.
MinRows == n_splits

\* Bounds: the rows of y, the horizon h.
MaxRows == 8
MaxH == 1

\* The biases of the backend's forecasts.
ForecastBiases == {0, 1}

\* The wide tables, rows <<time, total, node columns...>>:
\*   ramp:   total -> two leaves, every series growing
\*   flat:   total -> two leaves, the second leaf constant
\*   zigzag: total -> two leaves, the first leaf alternating
\*   chain:  total -> one node -> one node -> one leaf
Row(kind, r) ==
    CASE kind = "ramp" -> <<r, 2 * r, r, r>>
      [] kind = "flat" -> <<r, r + 1, r, 1>>
      [] kind = "zigzag" -> <<r, 2 * r + 1 + (r % 2), 1 + (r % 2), 2 * r>>
      [] kind = "chain" -> <<r, r, r, r, r>>

Table(kind, n) == [r \in 1..n |-> Row(kind, r)]

Tables == {Table(kind, n) : kind \in {"ramp", "flat", "zigzag", "chain"},
                            n \in MinRows..MaxRows}

NodesInputs == {<<>>, <<<<2>>>>, <<<<1>>, <<1>>, <<1>>>>, <<<<2>>, <<1, 1>>>>}

MethodInputs == AllowedMethods \cup {"XX"}

CapInputs == {None, OtherType, DataFrame(3), DataFrame(4)}

-----------------------------------------------------------------------------
(* hts: the run (hts.py 130-204).                                          *)

methodList == <<"OC", "FP", "PHA", "AHP", "BU">>

AllRows == Range(1, Len(y))

Call(rows, horizon, m) == [rows |-> rows, horizon |-> horizon, method |-> m]

HtsStart ==
    /\ sumMat = IndexError
    /\ splits = <<>>
    /\ fold = 0
    /\ ynewFold = <<>>
    /\ MASE = [m \in 1..5 |-> <<>>]
    /\ choice = ""
    /\ ynew = <<>>
    /\ calls = <<>>
    /\ failed = FALSE
    /\ printed = ""
    /\ returned = FALSE
    /\ error = ""
    /\ bias = <<>>

HtsInit ==
    /\ y \in Tables
    /\ h \in 0..MaxH
    /\ nodes \in NodesInputs
    /\ method \in MethodInputs
    /\ include_history \in BOOLEAN
    /\ cap \in CapInputs
    /\ capF \in CapInputs
    /\ pc = "validate"
    /\ HtsStart
    /\ SMRest
    /\ MARest
    /\ OHRest

\* Lines 130-147: the error handling.
Validate ==
    /\ pc = "validate"
    /\ LET msg == ErrorHandling(h, method, nodes, NumColumns(y), cap, capF)
       IN /\ error' = msg
          /\ pc' = IF msg # "" THEN "exited" ELSE "dispatch"
    /\ UNCHANGED <<notHts, htsArgs, htsLocals, calls, failed, printed, returned, bias>>

\* Lines 156 and 199: sumMat = SummingMat(nodes).
BuildSumMat ==
    /\ pc = "dispatch"
    /\ sumMat' = SummingMat(nodes)
    /\ IF sumMat' = IndexError
       THEN pc' = "raised" /\ error' = "IndexError"
       ELSE /\ pc' = IF method = "cvSelect" THEN "split" ELSE "single"
            /\ UNCHANGED error
    /\ UNCHANGED <<notHts, htsArgs, splits, fold, ynewFold, MASE, choice, ynew,
                   calls, failed, printed, returned, bias>>

\* Lines 157-166: tscv.split(y.iloc[:,0]) raises ValueError when there are
\* fewer rows than folds.
Split ==
    /\ pc = "split"
    /\ IF Len(y) < n_splits + 1
       THEN /\ pc' = "raised" /\ error' = "ValueError"
            /\ UNCHANGED <<splits, fold>>
       ELSE /\ splits' = TimeSeriesSplit(Len(y))
            /\ fold' = 1
            /\ pc' = "fold"
            /\ UNCHANGED error
    /\ UNCHANGED <<notHts, htsArgs, sumMat, ynewFold, MASE, choice, ynew,
                   calls, failed, printed, returned, bias>>

\* A variant of FoldCall: the whole table is handed to the backend.
FoldCallOnAllRows ==
    /\ pc = "fold"
    /\ Len(ynewFold) < Len(methodList)
    /\ LET m == Len(ynewFold) + 1
           testIndex == splits[fold].test
       IN /\ calls' = Append(calls, Call(AllRows, Len(testIndex), methodList[m]))
          /\ \E b \in (IF fold = 1 THEN ForecastBiases ELSE {bias[m]}) :
                /\ bias' = IF fold = 1 THEN Append(bias, b) ELSE bias
                /\ ynewFold' = Append(ynewFold,
                       fitForecast(y, AllRows, Len(testIndex), b, include_history))
    /\ UNCHANGED <<notHts, htsArgs, sumMat, splits, fold, MASE, choice, ynew,
                   pc, failed, printed, returned, error>>

\* Lines 167-181: the next of the five fitForecast calls of the fold, on
\* y.iloc[trainIndex, :] with horizon len(testIndex).
FoldCall ==
    /\ pc = "fold"
    /\ Len(ynewFold) < Len(methodList)
    /\ LET m == Len(ynewFold) + 1
           trainIndex == splits[fold].train
           testIndex == splits[fold].test
       IN /\ calls' = Append(calls, Call(trainIndex, Len(testIndex), methodList[m]))
          /\ \E b \in (IF fold = 1 THEN ForecastBiases ELSE {bias[m]}) :
                /\ bias' = IF fold = 1 THEN Append(bias, b) ELSE bias
                /\ ynewFold' = Append(ynewFold,
                       fitForecast(y, trainIndex, Len(testIndex), b, include_history))
    /\ UNCHANGED <<notHts, htsArgs, sumMat, splits, fold, MASE, choice, ynew,
                   pc, failed, printed, returned, error>>

\* A variant of FoldCallRaises: the failure is swallowed and the method is
\* fitted again.
FoldCallRetried ==
    /\ pc = "fold"
    /\ Len(ynewFold) < Len(methodList)
    /\ LET m == Len(ynewFold) + 1
       IN calls' = Append(calls, Call(splits[fold].train, Len(splits[fold].test),
                                      methodList[m]))
    /\ failed' = TRUE
    /\ UNCHANGED <<notHts, htsArgs, htsLocals, pc, error, printed, returned, bias>>

\* The same call, raising: the exception leaves hts.
FoldCallRaises ==
    /\ pc = "fold"
    /\ Len(ynewFold) < Len(methodList)
    /\ LET m == Len(ynewFold) + 1
       IN calls' = Append(calls, Call(splits[fold].train, Len(splits[fold].test),
                                      methodList[m]))
    /\ failed' = TRUE
    /\ pc' = "raised"
    /\ error' = "BackendError"
    /\ UNCHANGED <<notHts, htsArgs, htsLocals, printed, returned, bias>>

\* Lines 182-187: one value per key of ynew1 appended to each MASE list.
\* The first value computed (MASE1, first key) raises ZeroDivisionError when
\* the test window has one row, before anything is appended.
Score ==
    /\ pc = "fold"
    /\ Len(ynewFold) = Len(methodList)
    /\ LET testIndex == splits[fold].test
           first == MASEValue(ynewFold[1][0], y, testIndex, 0)
       IN IF first = ZeroDivisionError
          THEN /\ pc' = "raised" /\ error' = "ZeroDivisionError"
               /\ UNCHANGED <<MASE, ynewFold, fold>>
          ELSE /\ MASE' = [m \in 1..5 |->
                      MASEAppend(MASE[m], ynewFold[m], DOMAIN ynewFold[1], 0, y, testIndex)]
               /\ ynewFold' = <<>>
               /\ IF fold < Len(splits)
                  THEN fold' = fold + 1 /\ pc' = "fold"
                  ELSE fold' = fold /\ pc' = "select"
               /\ UNCHANGED error
    /\ UNCHANGED <<notHts, htsArgs, sumMat, splits, choice, ynew,
                   calls, failed, printed, returned, bias>>

\* Lines 191-192.
Choices(lists) == [m \in 1..5 |-> Mean(lists[m])]

Choose(lists) == methodList[IndexOfMin(Choices(lists))]

Select ==
    /\ pc = "select"
    /\ choice' = Choose(MASE)
    /\ pc' = "final"
    /\ UNCHANGED <<notHts, htsArgs, sumMat, splits, fold, ynewFold, MASE, ynew,
                   calls, failed, printed, returned, error, bias>>

MethodPos(m) == CHOOSE i \in 1..Len(methodList) : methodList[i] = m

\* Lines 193-195: the refit of the selected method on all of y.
FinalCall ==
    /\ pc = "final"
    /\ calls' = Append(calls, Call(AllRows, h, choice))
    /\ ynew' = fitForecast(y, AllRows, h, bias[MethodPos(choice)], include_history)
    /\ pc' = "print"
    /\ UNCHANGED <<notHts, htsArgs, sumMat, splits, fold, ynewFold, MASE, choice,
                   failed, printed, returned, error, bias>>

FinalCallRaises ==
    /\ pc = "final"
    /\ calls' = Append(calls, Call(AllRows, h, choice))
    /\ failed' = TRUE
    /\ pc' = "raised"
    /\ error' = "BackendError"
    /\ UNCHANGED <<notHts, htsArgs, htsLocals, printed, returned, bias>>

\* Line 196: print(choice).
PrintChoice ==
    /\ pc = "print"
    /\ printed' = choice
    /\ pc' = "return"
    /\ UNCHANGED <<notHts, htsArgs, htsLocals, calls, failed, returned, error, bias>>

\* Lines 199-202: the single call of a named method.
SingleCall ==
    /\ pc = "single"
    /\ calls' = Append(calls, Call(AllRows, h, method))
    /\ \E b \in ForecastBiases :
          /\ ynew' = fitForecast(y, AllRows, h, b, include_history)
          /\ bias' = <<b>>
    /\ pc' = "return"
    /\ UNCHANGED <<notHts, htsArgs, sumMat, splits, fold, ynewFold, MASE, choice,
                   failed, printed, returned, error>>

SingleCallRaises ==
    /\ pc = "single"
    /\ calls' = Append(calls, Call(AllRows, h, method))
    /\ failed' = TRUE
    /\ pc' = "raised"
    /\ error' = "BackendError"
    /\ UNCHANGED <<notHts, htsArgs, htsLocals, printed, returned, bias>>

\* Line 204: return ynew.
Return ==
    /\ pc = "return"
    /\ returned' = TRUE
    /\ pc' = "done"
    /\ UNCHANGED <<notHts, htsArgs, htsLocals, calls, failed, printed, error, bias>>

HtsNext ==
    \/ Validate
    \/ BuildSumMat
    \/ Split
    \/ FoldCall
    \/ FoldCallRaises
    \/ Score
    \/ Select
    \/ FinalCall
    \/ FinalCallRaises
    \/ PrintChoice
    \/ SingleCall
    \/ SingleCallRaises
    \/ Return

-----------------------------------------------------------------------------
(* The accuracy measure alone: one evaluation of the expression of lines   *)
(* 183-187 for one key, on a table of one training row followed by the     *)
(* test window, and a forecast table with or without the fitted history.   *)

\* Bound: the rows of the test window.
MaxWindow == 4

ActualValues == {10, 12, 14, 16}
ForecastValues == {10, 11, 15}

MAInit ==
    /\ \E n \in 1..MaxWindow :
         \E act \in [1..n -> ActualValues], fc \in [1..n -> ForecastValues],
            hist \in BOOLEAN :
             /\ maTable = <<<<1, 10>>>> \o [i \in 1..n |-> <<i + 1, act[i]>>]
             /\ maTest = Range(2, n + 1)
             /\ maYhat = (IF hist THEN <<10>> ELSE <<>>) \o fc
    /\ maPc = "call"
    /\ maValue = NaN
    /\ SMRest
    /\ HtsRest
    /\ OHRest

MAEvaluate ==
    /\ maPc = "call"
    /\ maValue' = MASEValue(maYhat, maTable, maTest, 0)
    /\ maPc' = "done"
    /\ UNCHANGED <<notMA, maTable, maTest, maYhat>>

MANext == MAEvaluate

-----------------------------------------------------------------------------
(* orderHier (hts.py 223-434).  Strings are sequences of characters; a     *)
(* missing cell (NaN) of a table is NA; an argument left at None is        *)
(* NoCol.  The raw data has a time column, one to four tag columns and the *)
(* value column: rows <<time, tag, ..., tag, value>>.                      *)

NA == -1
NoCol == -1

\* s.count(sub): the non-overlapping occurrences of sub in s, from the left.
RECURSIVE StrCount(_, _)
StrCount(s, sub) ==
    IF Len(s) < Len(sub) THEN 0
    ELSE IF SubSeq(s, 1, Len(sub)) = sub
         THEN 1 + StrCount(SubSeq(s, Len(sub) + 1, Len(s)), sub)
         ELSE StrCount(Tail(s), sub)

Underscore == <<"_">>
TimeName == <<"t", "i", "m", "e">>
TotalName == <<"t", "o", "t", "a", "l">>

\* a | b for the small non-negative integers the level arguments take
BitOr(a, b) ==
    LET bit(x, k) == (x \div k) % 2
        or(k) == IF bit(a, k) = 1 \/ bit(b, k) = 1 THEN k ELSE 0
    IN or(1) + or(2) + or(4)

\* Lines 273-282: the exit message, "TypeError" when None | int is
\* evaluated, "" when the arguments pass.  Line 279 is the chained
\* comparison col1 == (col2 | col1) == (col3 | col2) == col3, evaluated
\* left to right and stopped by the first False.
OrderHierChecks(c1, c2, c3) ==
    IF c1 \notin {1, 2, 3} THEN "col1"
    ELSE IF c2 \notin {1, 2, 3} THEN "col2"
    ELSE IF c3 # NoCol /\ c3 \notin {1, 2, 3} THEN "col3"
    ELSE IF c1 # BitOr(c2, c1) THEN ""
    ELSE IF c3 = NoCol THEN "TypeError"
    ELSE IF BitOr(c2, c1) # BitOr(c3, c2) THEN ""
    ELSE IF BitOr(c3, c2) # c3 THEN ""
    ELSE "different values"

\* pandas' unique(): the values of a sequence in order of first appearance.
RECURSIVE Unique(_)
Unique(s) ==
    IF s = <<>> THEN <<>>
    ELSE LET u == Unique(SubSeq(s, 1, Len(s) - 1))
             x == s[Len(s)]
         IN IF \E i \in 1..Len(u) : u[i] = x THEN u ELSE Append(u, x)

Column(raw, c) == [i \in 1..Len(raw) |-> raw[i][c]]

\* groupby(...)[numCol].sum() at one time instant, over the raw rows that
\* carry the tag values given in want (tag column -> value); NA when the
\* group has no row.
RECURSIVE GroupSumFrom(_, _, _, _)
GroupSumFrom(raw, i, t, want) ==
    IF i > Len(raw) THEN NA
    ELSE LET rest == GroupSumFrom(raw, i + 1, t, want)
             row == raw[i]
         IN IF row[1] = t /\ \A c \in DOMAIN want : row[c] = want[c]
            THEN row[Len(row)] + (IF rest = NA THEN 0 ELSE rest)
            ELSE rest

GroupSum(raw, t, want) == GroupSumFrom(raw, 1, t, want)

\* Lines 283-306: orderList, whose length is numIn.
OrderList(c1, c2, c3, c4) ==
    IF c2 = NoCol THEN <<c1>>
    ELSE IF c3 = NoCol THEN <<c1, c2>>
    ELSE IF c4 = NoCol THEN <<c1, c2, c3>>
    ELSE <<c1, c2, c3, c4>>

\* orderList.index(lev) raises ValueError when no argument equals lev;
\* otherwise it is the first position holding lev, and the tag column of
\* that position (after the time column) is the one put at level lev.
HasLevel(orderList, lev) == \E i \in 1..Len(orderList) : orderList[i] = lev

TagColumnOf(orderList, lev) ==
    1 + (CHOOSE i \in 1..Len(orderList) :
            /\ orderList[i] = lev
            /\ \A j \in 1..(i - 1) : orderList[j] # lev)

\* Lines 345-365: the node columns in the order of the merges: every value
\* of level lev, each followed by the columns of its combinations with the
\* values of the deeper levels (every combination, observed or not).
RECURSIVE LevelNames(_, _, _, _)
LevelNames(raw, orderList, lev, prefix) ==
    IF lev > Len(orderList) THEN <<>>
    ELSE LET u == Unique(Column(raw, TagColumnOf(orderList, lev)))
             name(j) == IF lev = 1 THEN u[j] ELSE prefix \o Underscore \o u[j]
             RECURSIVE block(_)
             block(j) ==
                 IF j > Len(u) THEN <<>>
                 ELSE <<name(j)>> \o LevelNames(raw, orderList, lev + 1, name(j))
                      \o block(j + 1)
         IN block(1)

\* Lines 314-335 and 345-365: the cells of those columns at time t, each
\* the group sum over the rows carrying the node's tag values.
RECURSIVE LevelCells(_, _, _, _, _)
LevelCells(raw, orderList, lev, t, want) ==
    IF lev > Len(orderList) THEN <<>>
    ELSE LET k == TagColumnOf(orderList, lev)
             u == Unique(Column(raw, k))
             RECURSIVE block(_)
             block(j) ==
                 IF j > Len(u) THEN <<>>
                 ELSE <<GroupSum(raw, t, want @@ (k :> u[j]))>>
                      \o LevelCells(raw, orderList, lev + 1, t, want @@ (k :> u[j]))
                      \o block(j + 1)
         IN block(1)

\* Lines 341-365: the wide table, columns time, total and the node
\* columns, rows in the order data[time].unique() gives, cells NA where a
\* left merge finds no row.
WideNames(raw, orderList) ==
    <<TimeName, TotalName>> \o LevelNames(raw, orderList, 1, <<>>)

WideRow(raw, orderList, t) ==
    <<t, GroupSum(raw, t, <<>>)>> \o LevelCells(raw, orderList, 1, t, <<>>)

WideTable(raw, orderList) ==
    LET times == Unique(Column(raw, 1))
    IN [cols |-> WideNames(raw, orderList),
        rows |-> [r \in 1..Len(times) |-> WideRow(raw, orderList, times[r])]]

\* The members of a set of positions, in increasing order.
RECURSIVE Ascending(_)
Ascending(S) ==
    IF S = {} THEN <<>>
    ELSE LET m == CHOOSE x \in S : \A z \in S : x <= z
         IN <<m>> \o Ascending(S \ {m})

SelectColumns(tbl, pos) ==
    [cols |-> [k \in 1..Len(pos) |-> tbl.cols[pos[k]]],
     rows |-> [r \in 1..Len(tbl.rows) |-> [k \in 1..Len(pos) |-> tbl.rows[r][pos[k]]]]]

SelectRows(tbl, pos) ==
    [cols |-> tbl.cols, rows |-> [k \in 1..Len(pos) |-> tbl.rows[pos[k]]]]

\* Line 370: y.dropna(axis = 1, thresh = len(y['time'])/2): a column stays
\* when it has at least len/2 cells that are not NA.
DropSparseColumns(tbl) ==
    LET n == Len(tbl.rows)
        filled(c) == Cardinality({r \in 1..n : tbl.rows[r][c] # NA})
    IN SelectColumns(tbl, Ascending({c \in 1..Len(tbl.cols) : 2 * filled(c) >= n}))

\* Line 371: y.dropna(axis = 0, how = 'any')
DropIncompleteRows(tbl) ==
    SelectRows(tbl, Ascending({r \in 1..Len(tbl.rows) :
                                  \A c \in 1..Len(tbl.cols) : tbl.rows[r][c] # NA}))

\* Line 373: y.fillna(1)
FillNA(tbl) ==
    [cols |-> tbl.cols,
     rows |-> [r \in 1..Len(tbl.rows) |->
                  [c \in 1..Len(tbl.cols) |->
                      IF tbl.rows[r][c] = NA THEN 1 ELSE tbl.rows[r][c]]]]

\* Lines 375-408: the columns with no underscore, then those with one,
\* two, three.
Depth(name) == StrCount(name, Underscore)

NewOrder(tbl) ==
    LET at(d) == Ascending({c \in 1..Len(tbl.cols) : Depth(tbl.cols[c]) = d})
    IN at(0) \o at(1) \o at(2) \o at(3)

Reorder(tbl) == SelectColumns(tbl, NewOrder(tbl))

\* count1, count2: the columns without and with one underscore
CountAtDepth(tbl, d) == Cardinality({c \in 1..Len(tbl.cols) : Depth(tbl.cols[c]) = d})

\* Lines 413-432: nodes: [count1 - 2], and for every further level the
\* list that gives, for every column of the level above, the sum over the
\* columns of this level of i.count(name of the upper column).
Nodes(tbl, numIn) ==
    LET before(d) == SumSeq([e \in 1..d |-> CountAtDepth(tbl, e - 1)])
        number(column, d) ==
            SumSeq([i \in 1..CountAtDepth(tbl, d) |->
                       StrCount(tbl.cols[before(d) + i], tbl.cols[column])])
        first(d) == IF d = 0 THEN 3 ELSE before(d) + 1
        last(d) == before(d) + CountAtDepth(tbl, d)
        level(L) ==
            IF L = 1 THEN <<CountAtDepth(tbl, 0) - 2>>
            ELSE [k \in 1..(last(L - 2) - first(L - 2) + 1) |->
                     number(first(L - 2) + k - 1, L - 1)]
    IN [L \in 1..numIn |-> level(L)]

-----------------------------------------------------------------------------
(* orderHier: the inputs the hierarchy-builder specification enumerates.   *)

\* Bounds: the raw rows, the time instants.
MaxRawRows == 3
MaxTime == 2

Tag1Values == {<<"A">>, <<"A", "B">>}
Tag2Values == {<<"x">>, <<"y">>}
RawValues == {2, 3}

\* Raw data with two tag columns.
RawRows == {<<t, a, b, v>> : t \in 1..MaxTime, a \in Tag1Values,
                             b \in Tag2Values, v \in RawValues}

RawData == UNION {[1..n -> RawRows] : n \in 1..MaxRawRows}

\* Raw data with one, three and four tag columns: fewer rows and values.
MaxWideRows == 2
Tag3Values == {<<"p">>, <<"q">>}
Tag4Values == {<<"m">>}

WideRows(k) ==
    CASE k = 1 -> {<<t, <<"A">>, 2>> : t \in 1..MaxTime}
      [] k = 3 -> {<<t, <<"A">>, b, c, 2>> :
                      t \in 1..MaxTime, b \in Tag2Values, c \in Tag3Values}
      [] k = 4 -> {<<t, <<"A">>, b, c, d, 2>> :
                      t \in 1..MaxTime, b \in Tag2Values, c \in Tag3Values,
                      d \in Tag4Values}

WideData(k) == UNION {[1..n -> WideRows(k)] : n \in 1..MaxWideRows}

ColInputs == {NoCol, 1, 2, 3, 4}

\* The tag columns of the data handed over with the level arguments: one
\* for every argument up to the last one supplied.
TagColumns(c2, c3, c4) ==
    IF c4 # NoCol THEN 4 ELSE IF c3 # NoCol THEN 3 ELSE IF c2 # NoCol THEN 2 ELSE 1

OHInit ==
    /\ col1 \in ColInputs
    /\ col2 \in ColInputs
    /\ col3 \in ColInputs
    /\ col4 \in ColInputs
    /\ data \in IF TagColumns(col2, col3, col4) = 2 THEN RawData
                ELSE WideData(TagColumns(col2, col3, col4))
    /\ rmZeros \in BOOLEAN
    /\ ohPc = "validate"
    /\ ohY = [cols |-> <<>>, rows |-> <<>>]
    /\ ohNodes = <<>>
    /\ ohError = ""
    /\ SMRest
    /\ HtsRest
    /\ MARest

\* Lines 273-282.
OHValidate ==
    /\ ohPc = "validate"
    /\ LET msg == OrderHierChecks(col1, col2, col3)
       IN /\ ohError' = msg
          /\ ohPc' = IF msg = "" THEN "build"
                     ELSE IF msg = "TypeError" THEN "raised" ELSE "exited"
    /\ UNCHANGED <<notOH, ohArgs, ohY, ohNodes>>

\* Lines 283-365: the per-node series and their merge into y;
\* orderList.index(lev) (lines 314, 320, 325, 331) raises ValueError, in
\* the first pass of the loops, when no argument names level lev.
OHBuild ==
    /\ ohPc = "build"
    /\ IF \A lev \in 1..Len(OrderList(col1, col2, col3, col4)) :
              HasLevel(OrderList(col1, col2, col3, col4), lev)
       THEN /\ ohY' = WideTable(data, OrderList(col1, col2, col3, col4))
            /\ ohPc' = "missing"
            /\ UNCHANGED ohError
       ELSE /\ ohPc' = "raised" /\ ohError' = "ValueError"
            /\ UNCHANGED ohY
    /\ UNCHANGED <<notOH, ohArgs, ohNodes>>

\* Lines 368-371: rmZeros drops the sparse columns, then the rows with a
\* missing cell.
OHDropMissing ==
    /\ ohPc = "missing" /\ rmZeros
    /\ ohY' = DropIncompleteRows(DropSparseColumns(ohY))
    /\ ohPc' = "reorder"
    /\ UNCHANGED <<notOH, ohArgs, ohNodes, ohError>>

\* Line 370 under a pandas that refuses how and thresh together.
OHDropMissingRaises ==
    /\ ohPc = "missing" /\ rmZeros
    /\ ohPc' = "raised" /\ ohError' = "TypeError"
    /\ UNCHANGED <<notOH, ohArgs, ohY, ohNodes>>

\* Line 373.
OHFillMissing ==
    /\ ohPc = "missing" /\ ~rmZeros
    /\ ohY' = FillNA(ohY)
    /\ ohPc' = "reorder"
    /\ UNCHANGED <<notOH, ohArgs, ohNodes, ohError>>

\* Lines 375-408.
OHReorder ==
    /\ ohPc = "reorder"
    /\ ohY' = Reorder(ohY)
    /\ ohPc' = "nodes"
    /\ UNCHANGED <<notOH, ohArgs, ohNodes, ohError>>

\* Lines 413-434: nodes, and the return of (y, nodes).
OHNodes ==
    /\ ohPc = "nodes"
    /\ ohNodes' = Nodes(ohY, Len(OrderList(col1, col2, col3, col4)))
    /\ ohPc' = "returned"
    /\ UNCHANGED <<notOH, ohArgs, ohY, ohError>>

OHNext ==
    \/ OHValidate
    \/ OHBuild
    \/ OHDropMissing
    \/ OHDropMissingRaises
    \/ OHFillMissing
    \/ OHReorder
    \/ OHNodes

-----------------------------------------------------------------------------
(* The specifications.  Each one runs one component; the variables of the  *)
(* other components rest.                                                  *)

SpecSM == SMInit /\ [][SMNext]_vars

SpecHts == HtsInit /\ [][HtsNext]_vars

SpecMASE == MAInit /\ [][MANext]_vars

SpecOH == OHInit /\ [][OHNext]_vars

-----------------------------------------------------------------------------
(* The descendant-indicator matrix of a topology, stated from the tree.    *)

\* The number of nd of level lev (level 0 is the root).
LevelSize(nd, lev) == IF lev = 0 THEN 1 ELSE SumSeq(nd[lev])

\* The number of rows above the first row of level lev.
RECURSIVE LevelOffset(_, _)
LevelOffset(nd, lev) ==
    IF lev = 0 THEN 0 ELSE LevelOffset(nd, lev - 1) + LevelSize(nd, lev - 1)

\* The positions, within level lev + 1, of the children of node i of level lev.
ChildrenOf(nd, lev, i) ==
    LET counts == nd[lev + 1]
        before == SumSeq(SubSeq(counts, 1, i - 1))
    IN (before + 1)..(before + counts[i])

RECURSIVE SumRowsAt(_, _, _, _)
SumRowsAt(rows, base, S, j) ==
    IF S = {} THEN 0
    ELSE LET c == CHOOSE x \in S : TRUE
         IN rows[base + c][j] + SumRowsAt(rows, base, S \ {c}, j)

IsDescendantMatrix(nd, M) ==
    LET depth == Len(nd)
        leaves == LevelSize(nd, depth)
        total == LevelOffset(nd, depth) + leaves
    IN /\ M.ndim = 2
       /\ Len(M.v) = total
       /\ \A r \in 1..total : Len(M.v[r]) = leaves
       /\ \A j \in 1..leaves : M.v[1][j] = 1
       /\ \A i, j \in 1..leaves :
              M.v[LevelOffset(nd, depth) + i][j] = (IF i = j THEN 1 ELSE 0)
       /\ \A lev \in 0..(depth - 1) : \A i \in 1..LevelSize(nd, lev) :
              \A j \in 1..leaves :
                  M.v[LevelOffset(nd, lev) + i][j] =
                      SumRowsAt(M.v, LevelOffset(nd, lev + 1),
                                ChildrenOf(nd, lev, i), j)

\* C1: for every topology with at least one level, positive child counts and
\* consistent level sizes, SummingMat returns the descendant-indicator
\* matrix (rows root, level 1, ..., leaves; root row all ones; leaf rows the
\* identity; every non-leaf row the sum of its children's rows), also when a
\* level holds a single node, and [[2]] gives [[1,1],[1,0],[0,1]].
C1_SummingMatIsDescendantMatrix ==
    smPc # "call" =>
        /\ smPc = "returned"
        /\ IsDescendantMatrix(smNodes, smResult)
        /\ smNodes = <<<<2>>>> => smResult.v = <<<<1, 1>>, <<1, 0>>, <<0, 1>>>>
        /\ smNodes = <<<<2>>, <<1, 2>>>> =>
               smResult.v = <<<<1, 1, 1>>, <<1, 0, 0>>, <<0, 1, 1>>,
                              <<1, 0, 0>>, <<0, 1, 0>>, <<0, 0, 1>>>>

\* Where SummingMat does return, it returns the descendant-indicator matrix.
SummingMatReturnsDescendantMatrix ==
    smPc = "returned" => IsDescendantMatrix(smNodes, smResult)

\* SummingMat raises exactly when a level below level 2 holds one node.
SummingMatRaisesOnSingleNodeLevel ==
    smPc # "call" =>
        (smPc = "raised" <=> \E lev \in 3..Len(smNodes) : Len(smNodes[lev]) = 1)

-----------------------------------------------------------------------------
(* The orchestrator's validation.                                          *)

\* A configuration the contract calls invalid.
InvalidConfiguration ==
    \/ h < 1
    \/ method \notin {"OC", "FP", "PHA", "AHP", "BU", "cvSelect"}
    \/ nodes = <<>>
    \/ SumSeq([i \in 1..Len(nodes) |-> SumSeq(nodes[i])]) # Len(y[1]) - 2
    \/ cap.kind = "DataFrame" /\ cap.cols # Len(y[1]) - 1
    \/ capF.kind = "DataFrame" /\ capF.cols # Len(y[1]) - 1

\* C2: with an invalid configuration (h < 1, unknown method, empty nodes,
\* node sum # columns - 2, cap or capF table of the wrong width) hts makes no
\* fitForecast call and returns nothing: the run ends with a configuration
\* error before SummingMat or fitForecast is reached.
C2_InvalidConfigurationEndsBeforeAnyCall ==
    InvalidConfiguration =>
        /\ calls = <<>>
        /\ ~returned /\ ynew = <<>> /\ printed = ""
        /\ pc \in {"validate", "exited"}
        /\ pc = "exited" => error # ""

\* An invalid capacity table (everything before it valid) has ended the run.
C2_Witness ==
    /\ h >= 1 /\ method = "cvSelect" /\ SumNodes(nodes) = NumColumns(y) - 2
    /\ cap = None /\ capF.kind = "DataFrame" /\ capF.cols # NumColumns(y) - 1
    /\ pc = "exited" /\ error = "capF columns"

-----------------------------------------------------------------------------
(* The cross-validated selection.                                          *)

\* The run has selected a method.
Selected == method = "cvSelect" /\ choice # ""

\* The average MASE of a candidate, over all the values accumulated for it.
Average(m) == Mean(MASE[MethodPos(m)])

Candidates == {"OC", "FP", "PHA", "AHP", "BU"}

\* C3: the method used for the final refit has an average MASE less than or
\* equal to the average MASE of each of the other four candidates.
C3_SelectedHasMinimumAverage ==
    Selected => \A m \in Candidates \ {choice} : FLe(Average(choice), Average(m))

\* The candidates whose average is less than or equal to every other one.
Minimal == {m \in Candidates : \A o \in Candidates \ {m} : FLe(Average(m), Average(o))}

\* The first method of an order (a sequence of names) that is in S.
FirstIn(order, S) == order[CHOOSE i \in 1..Len(order) :
                              /\ order[i] \in S
                              /\ \A j \in 1..(i - 1) : order[j] \notin S]

\* C4 as stated: when two or more methods tie for the minimum average MASE,
\* the selected method is the tied one that comes first in the order BU, FP,
\* PHA, AHP, OC.
C4_TieBreakBottomUpFirst ==
    (Selected /\ Cardinality(Minimal) >= 2) =>
        choice = FirstIn(<<"BU", "FP", "PHA", "AHP", "OC">>, Minimal)

\* C4 amended: when two or more methods tie for the minimum average MASE,
\* the selected method is the tied one that comes first in the order OC, FP,
\* PHA, AHP, BU (a tie between BU and OC selects OC).
C4_TieBreakOptimalCombinationFirst ==
    (Selected /\ Cardinality(Minimal) >= 2) =>
        choice = FirstIn(<<"OC", "FP", "PHA", "AHP", "BU">>, Minimal)

\* FP and BU tie for the minimum (OC is worse) and FP was selected; and the
\* run went on to return.
C4_Witness ==
    /\ Selected /\ pc = "done"
    /\ Minimal = {"FP", "BU"}
    /\ choice = "FP"

-----------------------------------------------------------------------------
(* The folds.                                                              *)

\* The fitForecast calls of the folds: the first 15 of a cvSelect run.
FoldCalls == 1..Min2(Len(calls), 15)
FoldOf(i) == ((i - 1) \div 5) + 1

IsPrefixOfRows(rows) == \A i \in 1..Len(rows) : rows[i] = i

\* C5: every fold is a forward-chaining split of the row positions of y:
\* the train set is a prefix of the rows, the test window the contiguous
\* block right after it, the three test windows pairwise disjoint with
\* increasing starts; each of the five calls of a fold receives exactly the
\* train rows (no test row) and the test window's length as horizon.
C5_ForwardChainingFolds ==
    (method = "cvSelect" /\ splits # <<>>) =>
        /\ Len(splits) = 3
        /\ \A k \in 1..3 :
              LET tr == splits[k].train
                  te == splits[k].test
              IN /\ IsPrefixOfRows(tr)
                 /\ Len(tr) >= 1 /\ Len(te) >= 1
                 /\ \A i \in 1..Len(te) : te[i] = Len(tr) + i
                 /\ Len(tr) + Len(te) <= Len(y)
        /\ \A k \in 1..2 :
              /\ splits[k].test[1] < splits[k + 1].test[1]
              /\ \A i \in 1..Len(splits[k].test), j \in 1..Len(splits[k + 1].test) :
                     splits[k].test[i] # splits[k + 1].test[j]
        /\ \A i \in FoldCalls :
              /\ calls[i].rows = splits[FoldOf(i)].train
              /\ \A r \in 1..Len(calls[i].rows), t \in 1..Len(splits[FoldOf(i)].test) :
                     calls[i].rows[r] < splits[FoldOf(i)].test[t]
              /\ calls[i].horizon = Len(splits[FoldOf(i)].test)

\* All fifteen fold calls were made, on three growing train prefixes.
C5_Witness ==
    /\ method = "cvSelect" /\ Len(calls) >= 15
    /\ Len(calls[1].rows) < Len(calls[6].rows)
    /\ Len(calls[6].rows) < Len(calls[11].rows)
    /\ calls[15].horizon = 2

\* C6: the call trace of a cvSelect run is the 15 fold calls (the folds in
\* order, the methods OC, FP, PHA, AHP, BU within a fold) and then one call
\* on the whole table at horizon h with the selected method, whose result
\* is returned and whose name is printed; a run that returns has made
\* exactly these calls.  Once a call has failed the run is over: no later
\* call, nothing retried or skipped, nothing printed, nothing returned.
C6_TraceInvariant ==
    method = "cvSelect" =>
        /\ Len(calls) <= 16
        /\ \A i \in FoldCalls :
              /\ calls[i].method = <<"OC", "FP", "PHA", "AHP", "BU">>[((i - 1) % 5) + 1]
              /\ Len(calls[i].rows) < Len(y)
              /\ i > 1 => Len(calls[i - 1].rows) <= Len(calls[i].rows)
              /\ (i > 1 /\ FoldOf(i) # FoldOf(i - 1)) =>
                     Len(calls[i - 1].rows) < Len(calls[i].rows)
        /\ Len(calls) = 16 =>
              /\ choice \in Candidates
              /\ calls[16] = [rows |-> [r \in 1..Len(y) |-> r], horizon |-> h,
                              method |-> choice]
        /\ returned =>
              /\ Len(calls) = 16 /\ ~failed
              /\ printed = choice
              /\ DOMAIN ynew = 0..(Len(y[1]) - 2)
              /\ \A k \in DOMAIN ynew :
                     Len(ynew[k]) = h + (IF include_history THEN Len(y) ELSE 0)
        /\ printed # "" => Len(calls) = 16 /\ ~failed
        /\ failed => pc = "raised" /\ ~returned /\ printed = "" /\ ynew = <<>>
        /\ (failed /\ Len(calls) <= 15) => choice = ""

C6_WitnessFailure ==
    method = "cvSelect" /\ failed /\ Len(calls) = 7

-----------------------------------------------------------------------------
(* The accuracy measure.                                                   *)

\* The sum of f[i] over the finite set S.
RECURSIVE SumOver(_, _)
SumOver(f, S) ==
    IF S = {} THEN 0
    ELSE LET i == CHOOSE x \in S : TRUE IN f[i] + SumOver(f, S \ {i})

\* The forecast errors and the actuals' first differences over a test
\* window te of table tbl, for the node in column col and the forecast
\* column yhat (whose last rows are the window's forecasts).
WindowErrors(yhat, tbl, te, col) ==
    LET n == Len(te)
    IN SumOver([t \in 1..n |-> Abs(yhat[Len(yhat) - n + t] - tbl[te[t]][col])], 1..n)

WindowDifferences(tbl, te, col) ==
    LET n == Len(te)
    IN SumOver([t \in 2..n |-> Abs(tbl[te[t]][col] - tbl[te[t - 1]][col])], 2..n)

\* v is e / ((n / (n - 1)) * d) as floating point computes it: the exact
\* quotient, inf for a positive e over d = 0, nan for 0 over 0.
IsScaledError(v, e, d, n) ==
    IF d = 0 THEN v.t = (IF e = 0 THEN "nan" ELSE "inf")
    ELSE v.t = "fin" /\ v.p * (n * d) = v.q * (e * (n - 1))

\* C7: the value accumulated for one (fold, node, method) is the sum over
\* the test window of |forecast - actual|, the forecasts being the last n
\* rows of yhat and the actuals the test rows of y, divided by n/(n-1) times
\* the sum of the actuals' absolute first differences within the window;
\* actuals [10,12,14,16] and forecasts [11,11,15,15] give 0.5.
C7_MASEFormula ==
    (maPc = "done" /\ Len(maTest) >= 2) =>
        /\ IsScaledError(maValue, WindowErrors(maYhat, maTable, maTest, 2),
                         WindowDifferences(maTable, maTest, 2), Len(maTest))
        /\ ( /\ [i \in 1..Len(maTest) |-> maTable[maTest[i]][2]] = <<10, 12, 14, 16>>
             /\ SubSeq(maYhat, Len(maYhat) - 3, Len(maYhat)) = <<11, 11, 15, 15>> )
           => maValue = [t |-> "fin", p |-> 1, q |-> 2]

\* The scenario of the contract, the forecast table holding the history too.
C7_Witness ==
    /\ maPc = "done"
    /\ maTable = <<<<1, 10>>, <<2, 10>>, <<3, 12>>, <<4, 14>>, <<5, 16>>>>
    /\ maYhat = <<10, 11, 11, 15, 15>>
    /\ maValue = [t |-> "fin", p |-> 1, q |-> 2]

-----------------------------------------------------------------------------
(* What the cross-validation scores.                                       *)

\* The folds scored so far.
Scored ==
    IF pc = "fold" THEN fold - 1
    ELSE IF pc \in {"select", "final", "print", "return", "done"} THEN 3
    ELSE IF pc = "raised" /\ fold >= 1 THEN (IF choice # "" THEN 3 ELSE fold - 1)
    ELSE 0

LeafCount == SumSeq(nodes[Len(nodes)])
NodeCount == Len(y[1]) - 1

\* C8 as stated: MASE values are computed for leaf nodes only: for every
\* method one value per (fold, leaf) pair, 3 x (leaf count) in total, and
\* none for the total or an intermediate node.
C8_LeafValuesOnly ==
    Selected => \A m \in 1..5 : Len(MASE[m]) = 3 * LeafCount

\* C8 amended: MASE values are computed for every node the backend returns
\* a forecast table for, the total and the intermediate nodes included:
\* for every method one value per (fold, node) pair, 3 x (columns of y - 1)
\* in total, the value of fold f and key k (in this order) comparing the
\* forecast of key k with column k + 1 of y, that node's own actuals.
C8_EveryNodeScored ==
    method = "cvSelect" =>
        \A m \in 1..5 :
            /\ Len(MASE[m]) = Scored * NodeCount
            /\ Selected => Len(MASE[m]) = 3 * NodeCount
            /\ \A f \in 1..(IF ynewFold = <<>> /\ pc \in {"fold", "select"}
                             THEN Scored ELSE 0) : \A k \in 0..(NodeCount - 1) :
                   LET te == splits[f].test
                       v == MASE[m][(f - 1) * NodeCount + k + 1]
                       yhat == [j \in 1..Len(te) |->
                                   y[Len(splits[f].train)][k + 2]
                                   + j * (y[Len(splits[f].train)][k + 2]
                                          - y[Len(splits[f].train) - 1][k + 2])
                                   + bias[m]]
                   IN IsScaledError(v, WindowErrors(yhat, y, te, k + 2),
                                    WindowDifferences(y, te, k + 2), Len(te))

\* A run selected a method with nine values per method for a total and two
\* leaves, the total's value differing from the leaves'.
C8_Witness ==
    /\ Selected /\ pc = "done" /\ nodes = <<<<2>>>>
    /\ Len(MASE[1]) = 9
    /\ MASE[1][1] = [t |-> "fin", p |-> 1, q |-> 2]
    /\ MASE[1][2] = [t |-> "fin", p |-> 1, q |-> 1]

-----------------------------------------------------------------------------
(* The hierarchy builder's result.                                         *)

\* Whether the name child is the name parent, an underscore and one more
\* tag value.
IsChildName(child, parent) ==
    /\ Len(child) > Len(parent) + 1
    /\ SubSeq(child, 1, Len(parent) + 1) = parent \o <<"_">>
    /\ \A i \in (Len(parent) + 2)..Len(child) : child[i] # "_"

IsTopName(name) ==
    /\ name # <<"t", "i", "m", "e">> /\ name # <<"t", "o", "t", "a", "l">>
    /\ \A i \in 1..Len(name) : name[i] # "_"

\* The run returned a hierarchy of two tag levels.
ReturnedTwoLevels ==
    ohPc = "returned" /\ Len(OrderList(col1, col2, col3, col4)) = 2

\* The columns of the returned table: the level-1 nodes, a node's children.
TopColumns == {c \in 1..Len(ohY.cols) : IsTopName(ohY.cols[c])}
ChildColumns(c) == {d \in 1..Len(ohY.cols) : IsChildName(ohY.cols[d], ohY.cols[c])}

\* C9: the pair (y, nodes) orderHier returns is consistent, whatever
\* rmZeros: at every row of y the total equals the sum of the level-1
\* columns and every level-1 column with children equals the sum of its
\* children's columns, also when a tag combination has no raw row at some
\* time instant.
C9_ParentsSumTheirChildren ==
    ohPc = "returned" =>
        \A r \in 1..Len(ohY.rows) :
            /\ ohY.rows[r][2] = SumOver(ohY.rows[r], TopColumns)
            /\ \A c \in TopColumns :
                   ChildColumns(c) # {} =>
                       ohY.rows[r][c] = SumOver(ohY.rows[r], ChildColumns(c))

\* Where no cell was missing the returned table is consistent.
OrderHierConsistentWithoutGaps ==
    (ReturnedTwoLevels /\ ~rmZeros
        /\ \A t \in {data[i][1] : i \in 1..Len(data)},
              a \in {data[i][2] : i \in 1..Len(data)},
              b \in {data[i][3] : i \in 1..Len(data)} :
                 \E i \in 1..Len(data) :
                     data[i][1] = t /\ data[i][2] = a /\ data[i][3] = b)
    => \A r \in 1..Len(ohY.rows) :
            /\ ohY.rows[r][2] = SumOver(ohY.rows[r], TopColumns)
            /\ \A c \in TopColumns :
                   ohY.rows[r][c] = SumOver(ohY.rows[r], ChildColumns(c))

\* C10: the topology orderHier returns counts, for every level-1 node, the
\* level-2 columns named by that node's name and an underscore (its real
\* children): the sum of all its integers is (columns of y) - 2, the sum of
\* its last level is the number of leaf columns, and (y, nodes) passes the
\* node-count validation of hts; also when one tag value is a substring of
\* another and when rmZeros drops columns.  Stated for the hierarchies of
\* two tag levels.
C10_NodesCountRealChildren ==
    ReturnedTwoLevels =>
        LET tops == Ascending(TopColumns)
            leaves == {d \in 1..Len(ohY.cols) :
                          \E i \in 1..Len(ohY.cols[d]) : ohY.cols[d][i] = "_"}
        IN /\ Len(ohNodes) = 2
           /\ ohNodes[1] = <<Len(tops)>>
           /\ Len(ohNodes[2]) = Len(tops)
           /\ \A k \in 1..Len(tops) :
                  ohNodes[2][k] = Cardinality(ChildColumns(tops[k]))
           /\ SumSeq(ohNodes[1]) + SumSeq(ohNodes[2]) = Len(ohY.cols) - 2
           /\ SumSeq(ohNodes[2]) = Cardinality(leaves)
           /\ ErrorHandling(1, "OC", ohNodes, Len(ohY.cols), None, None) = ""

\* Where no level-1 value occurs inside another the topology is right.
OrderHierNodesWithoutSubstrings ==
    (ReturnedTwoLevels /\ col1 = 2)
    => /\ SumSeq(ohNodes[1]) + SumSeq(ohNodes[2]) = Len(ohY.cols) - 2
       /\ \A k \in 1..Len(ohNodes[2]) :
              ohNodes[2][k] = Cardinality(ChildColumns(Ascending(TopColumns)[k]))

-----------------------------------------------------------------------------
(* The hierarchy builder's argument checks.                                *)

\* The first three level arguments are in range (col3 possibly left out)
\* and two of the supplied ones name the same level.
DuplicateLevels ==
    /\ col1 \in {1, 2, 3} /\ col2 \in {1, 2, 3} /\ col3 \in {NoCol, 1, 2, 3}
    /\ (col1 = col2 \/ col1 = col3 \/ col2 = col3)

\* C11: every level assignment in which two supplied tag columns are given
\* the same level ((1,1,2), (1,2,2), (2,2,1), (1,1) with col3 left out) is
\* rejected with the 'should all have different values' exit before any
\* series is built: the run never goes on into the construction and never
\* ends with another, unhandled error.
C11_DuplicateLevelsRejected ==
    DuplicateLevels =>
        /\ ohPc \in {"validate", "exited"}
        /\ ohPc = "exited" => ohError = "different values"

\* What the code does with such an assignment: it never returns a table;
\* the run ends at the exit, or with TypeError (col3 left out), or with
\* the ValueError of orderList.index during the construction.
OrderHierDuplicateLevelsNeverReturn ==
    DuplicateLevels =>
        /\ ohPc \in {"validate", "exited", "build", "raised"}
        /\ ohPc = "exited" => ohError = "different values" /\ col1 = col3
        /\ ohPc = "raised" => ohError = (IF col3 = NoCol THEN "TypeError" ELSE "ValueError")
        /\ ohNodes = <<>>

\* The level arguments supplied: col1 .. colk for some k, the others left
\* out.
Supplied ==
    LET all == <<col1, col2, col3, col4>>
        k == Cardinality({i \in 1..4 : all[i] # NoCol})
    IN IF \A i \in 1..4 : (all[i] # NoCol) <=> (i <= k) THEN SubSeq(all, 1, k)
       ELSE <<>>

\* A valid configuration: k tag columns assigned to the distinct levels 1..k.
ValidAssignment ==
    /\ Supplied # <<>>
    /\ {Supplied[i] : i \in 1..Len(Supplied)} = 1..Len(Supplied)

\* The run got through the argument checks and the construction, to a
\* table of the given depth.
BuiltDepth(k) ==
    /\ ohPc \notin {"validate", "build"} =>
           /\ ohPc # "exited"
           /\ ohY.cols # <<>>
           /\ \E c \in 1..Len(ohY.cols) : Depth(ohY.cols[c]) = k - 1
           /\ \A c \in 1..Len(ohY.cols) : Depth(ohY.cols[c]) <= k - 1
    /\ ohPc = "build" => ohError = ""
    /\ ohPc = "returned" => Len(ohNodes) = k

\* C12: every valid configuration is accepted: for k = 1, 2, 3, 4 tag
\* columns assigned to the distinct levels 1..k the checks pass and a
\* hierarchy of depth k is built; so for a single tag column (col1 = 1) and
\* for four tag columns with level 4 given to any of them, the first
\* included.
C12_ValidConfigurationsAccepted ==
    ValidAssignment => BuiltDepth(Len(Supplied))

\* What the code accepts: two or three tag columns in any order, and four
\* when the fourth column is the one at level 4.
OrderHierAcceptsFourthColumnLast ==
    (ValidAssignment /\ Len(Supplied) >= 2 /\ (Len(Supplied) = 4 => col4 = 4))
        => BuiltDepth(Len(Supplied))

\* A single tag column, and any column but the fourth at level 4, end at an
\* exit of the argument checks.
OrderHierRejectsSingleColumnAndEarlyLevelFour ==
    (ValidAssignment /\ (Len(Supplied) = 1 \/ (Len(Supplied) = 4 /\ col4 # 4)))
        => /\ ohPc \in {"validate", "exited"}
           /\ ohPc = "exited" => ohError \in {"col1", "col2", "col3"}

-----------------------------------------------------------------------------
(* The rows of the hierarchy builder's table.                              *)

\* The time column of the returned table, and the time values of the raw
\* data.
ReturnedTimes == [r \in 1..Len(ohY.rows) |-> ohY.rows[r][1]]
RawTimes == {data[i][1] : i \in 1..Len(data)}

Increasing(s) == \A i \in 1..(Len(s) - 1) : s[i] < s[i + 1]

\* C13: for every raw input, also one whose rows are not sorted by time,
\* the returned table has no two rows with the same time value, its rows
\* are in increasing time order and, with rmZeros False, it has exactly one
\* row per distinct time value of the raw data.
C13_RowsInTimeOrder ==
    ohPc = "returned" =>
        /\ \A i, j \in 1..Len(ReturnedTimes) :
               i # j => ReturnedTimes[i] # ReturnedTimes[j]
        /\ Increasing(ReturnedTimes)
        /\ ~rmZeros => Len(ReturnedTimes) = Cardinality(RawTimes)

\* What the code returns: with rmZeros False one row per time value, in the
\* order in which the time values first appear in the raw rows; in
\* increasing order when the raw rows are sorted by time.
OrderHierRowsInOrderOfAppearance ==
    ohPc = "returned" =>
        /\ ~rmZeros => ReturnedTimes = Unique(Column(data, 1))
        /\ \A i, j \in 1..Len(ReturnedTimes) :
               i # j => ReturnedTimes[i] # ReturnedTimes[j]
        /\ (\A i \in 1..(Len(data) - 1) : data[i][1] <= data[i + 1][1])
               => Increasing(ReturnedTimes)

-----------------------------------------------------------------------------
(* The size of the test windows.                                           *)

\* A cvSelect run on a table of 4 to 7 rows whose configuration passes the
\* error handling.
ShortTable ==
    /\ method = "cvSelect" /\ Len(y) \in 4..7
    /\ ErrorHandling(h, method, nodes, NumColumns(y), cap, capF) = ""

\* C14: on a table of N rows every fold's test window has N \div 4 rows.
\* For N >= 8 every window has at least 2 rows and the factor n/(n-1) is
\* defined.  For 4 <= N <= 7 the window has 1 row and the run ends with
\* ZeroDivisionError after the five calls of the first fold: no value
\* accumulated, no method selected, no final call, nothing returned; the
\* error handling does not reject such a table.
C14_TestWindowIsQuarter ==
    /\ (method = "cvSelect" /\ splits # <<>>) =>
           /\ \A k \in 1..Len(splits) : Len(splits[k].test) = Len(y) \div 4
           /\ Len(y) >= 8 =>
                  /\ \A k \in 1..Len(splits) : Len(splits[k].test) >= 2
                  /\ error # "ZeroDivisionError"
    /\ ShortTable =>
           /\ pc # "exited"
           /\ splits # <<>> => \A k \in 1..Len(splits) : Len(splits[k].test) = 1
           /\ pc \in {"validate", "dispatch", "split", "fold", "raised"}
           /\ fold <= 1 /\ Len(calls) <= 5
           /\ \A i \in 1..Len(calls) : Len(calls[i].rows) < Len(y)
           /\ \A m \in 1..5 : MASE[m] = <<>>
           /\ choice = "" /\ printed = "" /\ ~returned /\ ynew = <<>>
           /\ (pc = "raised" /\ ~failed /\ sumMat # IndexError) =>
                  error = "ZeroDivisionError" /\ Len(calls) = 5
           /\ error = "ZeroDivisionError" => Len(calls) = 5 /\ pc = "raised"

\* A run on five rows made the five calls of its first fold and ended with
\* the division by zero.
C14_Witness ==
    /\ ShortTable /\ Len(y) = 5
    /\ pc = "raised" /\ error = "ZeroDivisionError"
    /\ Len(calls) = 5 /\ calls[5].method = "BU" /\ calls[5].horizon = 1

====
